---- MODULE Spec2Model ----
(***************************************************************************)
(* Model of cltkv1/dependency/stanza.py: the StanzaWrapper class, its      *)
(* constructor lifecycle (language validation, treebank resolution, model  *)
(* presence check, download, pipeline construction) and the class-level    *)
(* cache filled by StanzaWrapper.get_nlp.                                  *)
(*                                                                         *)
(* Python's None is the string "None"; the empty string is "".  Errors are *)
(* the names of the exception classes.  The external stanza library is an  *)
(* environment: its downloader may or may not leave the requested file    *)
(* behind, and its pipeline constructor may return or raise.               *)
(***************************************************************************)
EXTENDS Naturals, Sequences, FiniteSets

\* ------------------------------------------------------------------ bounds

\* Number of calls (constructor or get_nlp) made in one behaviour.
MaxCalls == 2

\* ------------------------------------------------------------------ inputs

Threads == {"t1", "t2"}

MainThread == "t1"

None == "None"

\* Language arguments: the five supported codes and one that is not.
LanguageInputs == {"grc", "lat", "chu", "fro", "got", "xxx"}

\* Treebank arguments: omitted, one the code lists for grc and la and that
\* stanza has for cu and got as well, and one no language has.
TreebankInputs == {None, "proiel", "xxx"}

NoErr == "none"

\* ------------------------------------------------------- tables of the code

map_langs_cltk_stanza ==
    [grc |-> "Ancient_Greek",
     lat |-> "Latin",
     chu |-> "Old_Church_Slavonic",
     fro |-> "Old_French",
     got |-> "Gothic"]

map_code_treebanks ==
    [grc |-> {"proiel", "perseus"},
     la  |-> {"perseus", "proiel", "ittb"}]

\* stanza.models.common.constant.lang2lcode, the entries the wrapper reads.
lang2lcode ==
    [Ancient_Greek       |-> "grc",
     Latin               |-> "la",
     Old_Church_Slavonic |-> "cu",
     Old_French          |-> "fro",
     Gothic              |-> "got"]

\* stanza.utils.prepare_resources.default_treebanks, the entries the wrapper reads.
default_treebanks ==
    [grc |-> "proiel",
     la  |-> "ittb",
     cu  |-> "proiel",
     fro |-> "srcmf",
     got |-> "proiel"]

\* ------------------------------------------------------------------ values

NoPipeline ==
    [lang |-> "", package |-> "", processors |-> "", lemma_use_identity |-> FALSE]

NoObj ==
    [id |-> 0, language |-> "", treebank |-> "", stanza_code |-> "",
     model_path |-> <<>>, nlp |-> NoPipeline]

\* "~/stanza_resources/{stanza_code}/tokenize/{treebank}.pt"
ModelPath(stanza_code, treebank) == <<stanza_code, treebank>>

\* cltkv1.utils.file_exists
file_exists(files, path) == path \in files

\* Python truth value of the treebank argument: None and "" are false.
Truthy(treebank) == treebank \notin {None, ""}

\* ------------------------------------------------- helpers of StanzaWrapper

is_wrapper_available_always(language) == TRUE

is_wrapper_available(language) == language \in DOMAIN map_langs_cltk_stanza

\* The code _get_stanza_code returns, or "KeyError" when either lookup misses.
_get_stanza_code(language) ==
    IF language \notin DOMAIN map_langs_cltk_stanza
    THEN "KeyError"
    ELSE LET stanza_lang_name == map_langs_cltk_stanza[language]
         IN  IF stanza_lang_name \notin DOMAIN lang2lcode
             THEN "KeyError"
             ELSE lang2lcode[stanza_lang_name]

_is_valid_treebank(stanza_code, treebank) ==
    treebank \in map_code_treebanks[stanza_code]

_get_default_treebank_first(stanza_code) == default_treebanks["grc"]

_get_default_treebank(stanza_code) == default_treebanks[stanza_code]

_is_model_present_never(files, model_path) == FALSE

_is_model_present_always(files, model_path) == TRUE

_is_model_present(files, model_path) ==
    IF file_exists(files, model_path) THEN TRUE ELSE FALSE

\* The keyword arguments _load_pipeline hands to stanza.Pipeline.
_load_pipeline_full(self) ==
    [lang |-> self.stanza_code, package |-> self.treebank,
     processors |-> "tokenize,mwt,pos,lemma,depparse",
     lemma_use_identity |-> FALSE]

_load_pipeline(self) ==
    IF self.language = "fro"
    THEN [lang |-> self.stanza_code, package |-> self.treebank,
          processors |-> "tokenize,pos,lemma", lemma_use_identity |-> TRUE]
    ELSE [lang |-> self.stanza_code, package |-> self.treebank,
          processors |-> "tokenize,mwt,pos,lemma,depparse",
          lemma_use_identity |-> FALSE]

\* The arguments _download_model hands to stanza.download.
DownloadArgs(self) == [lang |-> self.language, package |-> self.treebank]

\* The file a download of (lang, package) leaves on local storage.
Downloaded(args) == ModelPath(args.lang, args.package)

\* _download_model raises FileNotFoundError when the file is still absent.
StillMissingNever(files, model_path) == FALSE

StillMissing(files, model_path) == ~file_exists(files, model_path)

\* ------------------------------------------- StanzaWrapper.__init__, part 1

\* Lines 72-107: the attributes set and the error raised, if any, before the
\* model path is computed.  steps lists the lifecycle steps entered, in order.
InitSetup(language, treebank) ==
    IF ~is_wrapper_available(language)
    THEN [err |-> "UnknownLanguageError", stanza_code |-> "",
          treebank |-> treebank, steps |-> <<"validate_language">>]
    ELSE LET code == _get_stanza_code(language) IN
         IF code = "KeyError"
         THEN [err |-> "KeyError", stanza_code |-> "", treebank |-> treebank,
               steps |-> <<"validate_language", "stanza_code">>]
         ELSE IF Truthy(treebank)
         THEN IF code \notin DOMAIN map_code_treebanks
              THEN [err |-> "KeyError", stanza_code |-> code,
                    treebank |-> treebank,
                    steps |-> <<"validate_language", "stanza_code", "treebank">>]
              ELSE IF ~_is_valid_treebank(code, treebank)
              THEN [err |-> "UnimplementedLanguageError", stanza_code |-> code,
                    treebank |-> treebank,
                    steps |-> <<"validate_language", "stanza_code", "treebank">>]
              ELSE [err |-> NoErr, stanza_code |-> code, treebank |-> treebank,
                    steps |-> <<"validate_language", "stanza_code", "treebank">>]
         ELSE IF code \notin DOMAIN default_treebanks
              THEN [err |-> "KeyError", stanza_code |-> code,
                    treebank |-> treebank,
                    steps |-> <<"validate_language", "stanza_code", "treebank">>]
              ELSE [err |-> NoErr, stanza_code |-> code,
                    treebank |-> _get_default_treebank(code),
                    steps |-> <<"validate_language", "stanza_code", "treebank">>]

\* ------------------------------------------------------------------- state

VARIABLES
    nlps,      \* StanzaWrapper.nlps: language -> cached wrapper
    files,     \* local storage: the model paths that exist
    stdout,    \* sys.stdout: "sys" or "devnull"
    th,        \* per caller: the call in progress and what it has done
    ncalls,    \* calls made so far; a new wrapper's identity is its call number
    writes     \* history: the <<language, id>> pairs written to nlps, in order

vars == <<nlps, files, stdout, th, ncalls, writes>>

IdleFrame ==
    [pc |-> "idle", op |-> "", language |-> "", treebank |-> None,
     self |-> NoObj, err |-> NoErr, ret |-> NoObj, hit |-> FALSE,
     at_check |-> FALSE, observed |-> FALSE, downloads |-> 0,
     trace |-> <<>>, old_stdout |-> "sys", doc |-> NoPipeline]

\* Every model path a construction with the modelled inputs can expect.
ExpectedPaths ==
    {ModelPath(InitSetup(l, v).stanza_code, InitSetup(l, v).treebank) :
        <<l, v>> \in {p \in LanguageInputs \X TreebankInputs :
                        InitSetup(p[1], p[2]).err = NoErr}}

\* Local storage before the first call: nothing installed, or every model.
\* Downloads that deliver or fail produce the storage states in between.
InitialStorage == {{}, ExpectedPaths}

Init ==
    /\ nlps = [l \in {} |-> NoObj]
    /\ files \in InitialStorage
    /\ stdout = "sys"
    /\ th = [t \in Threads |-> IdleFrame]
    /\ ncalls = 0
    /\ writes = <<>>

\* A caller can start a call when it is not inside one.
CanCall(t) ==
    /\ th[t].pc \in {"idle", "done", "failed"}
    /\ ncalls < MaxCalls

\* Where an exception sends the caller: a raised error ends the call.
RaiseSwallowed(err, pc) == pc

Raise(err, pc) == IF err # NoErr THEN "failed" ELSE pc

\* The frame of a caller that has run lines 72-107 of the constructor.
Constructing(op, language, treebank, id) ==
    LET s == InitSetup(language, treebank) IN
    [IdleFrame EXCEPT
        !.pc = Raise(s.err, "model_check"),
        !.op = op,
        !.language = language,
        !.treebank = treebank,
        !.self = [NoObj EXCEPT !.id = id, !.language = language,
                               !.treebank = s.treebank,
                               !.stanza_code = s.stanza_code],
        !.err = s.err,
        !.trace = s.steps]

\* The constructor was called by get_nlp (line 349), which then stores the
\* wrapper, or directly by the user, who receives it.
AfterInitAlwaysStore(op) == "store"

AfterInit(op) == IF op = "get_nlp" THEN "store" ELSE "done"

\* get_nlp, line 346: language in cls.nlps
CacheHitNever(cache, language) == FALSE

CacheHit(cache, language) == language \in DOMAIN cache

\* get_nlp, line 347: the frame of a call that returns the cached wrapper.
HitValidated(cache, language, treebank) ==
    LET s == InitSetup(language, treebank) IN
    [IdleFrame EXCEPT
        !.pc = Raise(s.err, "done"), !.op = "get_nlp",
        !.language = language, !.treebank = treebank,
        !.err = s.err, !.trace = s.steps,
        !.ret = IF s.err = NoErr THEN cache[language] ELSE NoObj,
        !.hit = TRUE]

Hit(cache, language, treebank) ==
    [IdleFrame EXCEPT
        !.pc = "done", !.op = "get_nlp",
        !.language = language, !.treebank = treebank,
        !.ret = cache[language], !.hit = TRUE]

\* get_nlp, line 350: cls.nlps[language] = nlp
CachePutByCode(cache, language, nlp) ==
    [l \in DOMAIN cache \cup {nlp.stanza_code} |->
        IF l = nlp.stanza_code THEN nlp ELSE cache[l]]

CacheSetDefault(cache, language, nlp) ==
    [l \in DOMAIN cache \cup {language} |->
        IF l \in DOMAIN cache THEN cache[l] ELSE nlp]

CachePut(cache, language, nlp) ==
    [l \in DOMAIN cache \cup {language} |->
        IF l = language THEN nlp ELSE cache[l]]

\* ----------------------------------------------------------------- actions

\* StanzaWrapper(language, treebank) called directly: lines 72-107.
New(t) ==
    /\ CanCall(t)
    /\ \E language \in LanguageInputs, treebank \in TreebankInputs :
         th' = [th EXCEPT ![t] =
                  Constructing("init", language, treebank, ncalls + 1)]
    /\ ncalls' = ncalls + 1
    /\ UNCHANGED <<nlps, files, stdout, writes>>

\* StanzaWrapper.get_nlp(language, treebank): lines 346-349, and on a miss
\* lines 72-107 of the constructor it calls.
GetNlp(t) ==
    /\ CanCall(t)
    /\ \E language \in LanguageInputs, treebank \in TreebankInputs :
         th' = [th EXCEPT ![t] =
                  IF CacheHit(nlps, language)
                  THEN Hit(nlps, language, treebank)
                  ELSE Constructing("get_nlp", language, treebank, ncalls + 1)]
    /\ ncalls' = ncalls + 1
    /\ UNCHANGED <<nlps, files, stdout, writes>>

\* Lines 125-126: the with block of suppress_stdout() encloses the pipeline
\* construction and nothing else.
WithScopeDownload(pc) == pc \in {"download", "pipeline"}

WithScope(pc) == pc = "pipeline"

\* Line 125, entering suppress_stdout(): sys.stdout is saved in the frame
\* and replaced.  The step that leads into the with block takes it.
Enter(frame, out) ==
    IF WithScope(frame.pc) THEN [frame EXCEPT !.old_stdout = out] ELSE frame

Suppressed(frame, out) == IF WithScope(frame.pc) THEN "devnull" ELSE out

\* Lines 113-116: compute model_path and test whether the file exists; when
\* it does, go on to line 125.
ModelCheck(t) ==
    /\ th[t].pc = "model_check"
    /\ LET self == th[t].self
           path == ModelPath(self.stanza_code, self.treebank)
           seen == file_exists(files, path)
           frame == [th[t] EXCEPT
                       !.self.model_path = path,
                       !.at_check = seen,
                       !.observed = seen,
                       !.trace = Append(@, "model_check"),
                       !.pc = IF _is_model_present(files, path)
                              THEN "pipeline" ELSE "download"]
       IN  /\ th' = [th EXCEPT ![t] = Enter(frame, stdout)]
           /\ stdout' = Suppressed(frame, stdout)
    /\ UNCHANGED <<nlps, files, ncalls, writes>>

\* _download_model, lines 261-279: the notice, one call of stanza.download,
\* which leaves the file behind or does not, and the second existence test;
\* when the file is there, go on to line 125.
DownloadModel(t) ==
    /\ th[t].pc = "download"
    /\ \E delivered \in BOOLEAN :
         LET self == th[t].self
             after == IF delivered
                      THEN files \cup {Downloaded(DownloadArgs(self))}
                      ELSE files
             missing == StillMissing(after, self.model_path)
             err == IF missing THEN "FileNotFoundError" ELSE NoErr
             frame == [th[t] EXCEPT
                         !.downloads = @ + 1,
                         !.observed = file_exists(after, self.model_path),
                         !.trace = @ \o <<"download", "recheck">>,
                         !.err = err,
                         !.pc = Raise(err, "pipeline")]
         IN  /\ files' = after
             /\ th' = [th EXCEPT ![t] = Enter(frame, stdout)]
             /\ stdout' = Suppressed(frame, stdout)
    /\ UNCHANGED <<nlps, ncalls, writes>>

\* Line 126 and the exit of suppress_stdout(): stanza.Pipeline returns or
\* raises, and either way sys.stdout is set back to what was saved on entry
\* (the saved value then goes out of scope).
LoadPipeline(t) ==
    /\ th[t].pc = "pipeline"
    /\ stdout' = th[t].old_stdout
    /\ \E built \in BOOLEAN :
         LET self == [th[t].self EXCEPT !.nlp = _load_pipeline(th[t].self)]
         IN  th' = [th EXCEPT ![t] =
                      IF built
                      THEN [th[t] EXCEPT
                              !.self = self,
                              !.old_stdout = IdleFrame.old_stdout,
                              !.trace = @ \o <<"pipeline", "ready">>,
                              !.ret = IF AfterInit(th[t].op) = "done"
                                      THEN self ELSE NoObj,
                              !.pc = AfterInit(th[t].op)]
                      ELSE [th[t] EXCEPT
                              !.old_stdout = IdleFrame.old_stdout,
                              !.trace = Append(@, "pipeline"),
                              !.err = "PipelineError",
                              !.pc = Raise("PipelineError", "done")]]
    /\ UNCHANGED <<nlps, files, ncalls, writes>>

\* get_nlp, lines 350-351: store the new wrapper and return it.
CacheStore(t) ==
    /\ th[t].pc = "store"
    /\ nlps' = CachePut(nlps, th[t].language, th[t].self)
    /\ writes' = Append(writes, <<th[t].language, th[t].self.id>>)
    /\ th' = [th EXCEPT ![t].ret = th[t].self, ![t].pc = "done"]
    /\ UNCHANGED <<files, stdout, ncalls>>

\* parse(text), lines 199-200, called on the wrapper the caller holds: the
\* text goes to the wrapper's pipeline, whose document is returned (doc names
\* the pipeline that produced it).
Parse(t) ==
    /\ th[t].pc = "done"
    /\ th[t].op # "parse"
    /\ th[t].ret # NoObj
    /\ th' = [th EXCEPT ![t] =
                [IdleFrame EXCEPT !.pc = "done", !.op = "parse",
                                  !.ret = th[t].ret, !.doc = th[t].ret.nlp]]
    /\ UNCHANGED <<nlps, files, stdout, ncalls, writes>>

Step(t) ==
    \/ New(t)
    \/ GetNlp(t)
    \/ ModelCheck(t)
    \/ DownloadModel(t)
    \/ LoadPipeline(t)
    \/ CacheStore(t)
    \/ Parse(t)

\* Callers running concurrently, interleaved at the shared-state accesses.
Next == \E t \in Threads : Step(t)

Spec == Init /\ [][Next]_vars

\* Single-threaded use: one caller.
NextSeq == Step(MainThread)

SpecSeq == Init /\ [][NextSeq]_vars

\* ------------------------------------------------------ terms of the claims

\* The five supported language codes.
SupportedCodes == {"grc", "lat", "chu", "fro", "got"}

\* The frame of a call in which the constructor ran (directly or on a miss).
Constructed(f) == f.op \in {"init", "get_nlp"} /\ ~f.hit

\* stanza's code for a supported language.
CodeOf(language) == lang2lcode[map_langs_cltk_stanza[language]]

\* The treebanks that count as valid for a supported language: those the
\* code lists for it, and stanza's default for it.
ValidTreebanks(language) ==
    (IF CodeOf(language) \in DOMAIN map_code_treebanks
     THEN map_code_treebanks[CodeOf(language)] ELSE {})
    \cup {default_treebanks[CodeOf(language)]}

Steps(f) == {f.trace[i] : i \in 1..Len(f.trace)}

\* C1: a constructor call with a language outside the five supported codes
\* has failed with UnknownLanguageError, whatever the treebank argument and
\* local storage, and has neither downloaded nor built a pipeline.
C1_UnknownLanguage ==
    \A t \in Threads :
        LET f == th[t] IN
        (Constructed(f) /\ f.language \notin SupportedCodes) =>
            /\ f.pc = "failed"
            /\ f.err = "UnknownLanguageError"
            /\ f.downloads = 0
            /\ f.trace = <<"validate_language">>
            /\ f.self.nlp = NoPipeline

C1_Witness ==
    \E t \in Threads :
        /\ Constructed(th[t])
        /\ th[t].language = "xxx"
        /\ th[t].treebank = "proiel"
        /\ th[t].err = "UnknownLanguageError"
        /\ files # {}

\* C2: a constructor call with a supported language and a given treebank
\* that is not valid for it has failed with UnimplementedLanguageError
\* before any download.
C2_InvalidVariantUnimplemented ==
    \A t \in Threads :
        LET f == th[t] IN
        (/\ Constructed(f)
         /\ f.language \in SupportedCodes
         /\ f.treebank # None
         /\ f.treebank \notin ValidTreebanks(f.language)) =>
            /\ f.pc = "failed"
            /\ f.err = "UnimplementedLanguageError"
            /\ f.downloads = 0

\* C3, as stated: a constructor call with a supported language and no
\* treebank succeeds (a failure inside stanza's own pipeline constructor
\* aside: the wrapper itself raises nothing), and the wrapper's treebank is
\* stanza's default for the language's code.
C3_DefaultAlwaysSucceeds ==
    \A t \in Threads :
        LET f == th[t] IN
        (Constructed(f) /\ f.language \in SupportedCodes /\ f.treebank = None) =>
            /\ f.pc = "failed" => f.err = "PipelineError"
            /\ f.self.treebank = default_treebanks[CodeOf(f.language)]

\* C3, amended: a constructor call with a supported language and no treebank
\* passes validation with the wrapper's treebank equal to stanza's default
\* for the language's code, which is the treebank of the model path and the
\* package of the pipeline; it fails only with FileNotFoundError, the file
\* not having been seen, or when stanza's pipeline constructor raises.
C3_DefaultTreebank ==
    \A t \in Threads :
        LET f == th[t]
            default == default_treebanks[CodeOf(f.language)]
        IN
        (Constructed(f) /\ f.language \in SupportedCodes /\ f.treebank = None) =>
            /\ f.self.treebank = default
            /\ f.self.stanza_code = CodeOf(f.language)
            /\ f.self.model_path \in {<<>>, ModelPath(CodeOf(f.language), default)}
            /\ f.self.nlp \in {NoPipeline, _load_pipeline(f.self)}
            /\ f.self.nlp # NoPipeline => f.self.nlp.package = default
            /\ f.pc = "done" => f.self.nlp # NoPipeline /\ f.ret = f.self
            /\ f.pc = "failed" =>
                 \/ f.err = "FileNotFoundError" /\ ~f.observed
                 \/ f.err = "PipelineError"

C3_Witness ==
    \E t \in Threads :
        /\ Constructed(th[t])
        /\ th[t].language = "lat"
        /\ th[t].treebank = None
        /\ th[t].pc = "done"
        /\ th[t].ret.treebank = "ittb"
        /\ th[t].ret.model_path = <<"la", "ittb">>
        /\ th[t].ret.nlp.package = "ittb"

\* C4: a construction whose existence check found the file has called the
\* downloader no times, and went from the check straight to the pipeline.
C4_PresentNoDownload ==
    \A t \in Threads :
        LET f == th[t] IN
        f.at_check =>
            /\ f.downloads = 0
            /\ "download" \notin Steps(f)
            /\ f.pc \in {"pipeline", "store", "done", "failed"}
            /\ f.pc = "failed" => f.err = "PipelineError"
            /\ Len(f.trace) > 4 => f.trace[5] = "pipeline"

C4_Witness ==
    \E t \in Threads :
        /\ th[t].at_check
        /\ th[t].pc = "done"
        /\ th[t].ret.nlp # NoPipeline
        /\ th[t].downloads = 0

\* C5: a construction whose existence check found no file calls the
\* downloader once and never again; when the file is still absent after that
\* call, it has failed with FileNotFoundError and built no pipeline.
C5_AbsentOneDownload ==
    \A t \in Threads :
        LET f == th[t] IN
        /\ f.downloads <= 1
        /\ ("model_check" \in Steps(f) /\ ~f.at_check) =>
              \/ f.pc = "download" /\ f.downloads = 0
              \/ /\ f.pc # "download"
                 /\ f.downloads = 1
                 /\ ~f.observed =>
                      /\ f.pc = "failed"
                      /\ f.err = "FileNotFoundError"
                      /\ "pipeline" \notin Steps(f)
                      /\ f.self.nlp = NoPipeline

C5_Witness ==
    \E t \in Threads :
        /\ "model_check" \in Steps(th[t])
        /\ ~th[t].at_check
        /\ th[t].downloads = 1
        /\ th[t].pc = "failed"
        /\ th[t].err = "FileNotFoundError"

\* The positions in writes at which a language was written, and the
\* identities written first and last for it.
WritesOf(language) == {i \in 1..Len(writes) : writes[i][1] = language}

FirstId(language) ==
    writes[CHOOSE i \in WritesOf(language) :
             \A j \in WritesOf(language) : i <= j][2]

LastId(language) ==
    writes[CHOOSE i \in WritesOf(language) :
             \A j \in WritesOf(language) : i >= j][2]

\* C6: with one caller, every get_nlp call that returns for a language
\* returns the wrapper first stored for it, whatever its treebank argument;
\* the entry of a language is written once and stays in the cache.
C6_SameInstance ==
    /\ \A i \in 1..Len(writes) : writes[i][1] \in DOMAIN nlps
    /\ \A language \in DOMAIN nlps :
         /\ Cardinality(WritesOf(language)) = 1
         /\ nlps[language].id = FirstId(language)
    /\ \A t \in Threads :
         LET f == th[t] IN
         (f.op = "get_nlp" /\ f.pc = "done") =>
             /\ f.language \in DOMAIN nlps
             /\ f.ret = nlps[f.language]
             /\ f.ret.id = FirstId(f.language)

C6_Witness ==
    \E t \in Threads :
        /\ th[t].op = "get_nlp"
        /\ th[t].pc = "done"
        /\ th[t].hit
        /\ th[t].treebank = "xxx"
        /\ th[t].ret.treebank = "proiel"
        /\ th[t].ret.id = 1
        /\ ncalls = 2

\* C7: every step that changes the cache is the store of a get_nlp call that
\* missed; the constructor called directly, parse and a get_nlp hit leave it
\* as it was.
C7_OnlyGetNlpWrites ==
    [][nlps' # nlps =>
         \E t \in Threads :
             /\ th[t].op = "get_nlp"
             /\ ~th[t].hit
             /\ th[t].pc = "store"
             /\ th'[t].pc = "done"
             /\ nlps' = [l \in DOMAIN nlps \cup {th[t].language} |->
                           IF l = th[t].language THEN th[t].self ELSE nlps[l]]]_vars

C7_Witness ==
    \E t, u \in Threads :
        /\ th[t].op = "get_nlp"
        /\ th[t].hit
        /\ th[t].pc = "done"
        /\ th[u].op = "parse"
        /\ th[u].doc = th[t].ret.nlp
        /\ Len(writes) = 1
        /\ DOMAIN nlps = {th[t].language}

\* C8: with concurrent callers the cache entry of a language is the wrapper
\* written last for it, and a get_nlp call that missed returns the wrapper it
\* constructed itself; the witness is the race: two callers of get_nlp for
\* one language both missed, both downloaded, both stored, and hold
\* different wrappers, the cache holding the one stored last.
C8_LastWriteWins ==
    /\ \A language \in DOMAIN nlps :
         /\ WritesOf(language) # {}
         /\ nlps[language].id = LastId(language)
    /\ \A t \in Threads :
         LET f == th[t] IN
         (f.op = "get_nlp" /\ ~f.hit /\ f.pc = "done") =>
             /\ f.ret = f.self
             /\ f.ret.nlp # NoPipeline
             /\ \E i \in WritesOf(f.language) : writes[i][2] = f.self.id

C8_Witness ==
    \E t, u \in Threads :
        /\ t # u
        /\ th[t].op = "get_nlp" /\ th[u].op = "get_nlp"
        /\ ~th[t].hit /\ ~th[u].hit
        /\ th[t].pc = "done" /\ th[u].pc = "done"
        /\ th[t].language = th[u].language
        /\ th[t].downloads = 1 /\ th[u].downloads = 1
        /\ th[t].ret.id # th[u].ret.id
        /\ writes = << <<th[t].language, th[t].ret.id>>,
                       <<th[u].language, th[u].ret.id>> >>
        /\ nlps[th[u].language] = th[u].ret
        /\ nlps[th[t].language] # th[t].ret

\* The lifecycle step at which an error is raised.
FailSteps(err) ==
    CASE err = "UnknownLanguageError"       -> {"validate_language"}
      [] err = "KeyError"                   -> {"stanza_code", "treebank"}
      [] err = "UnimplementedLanguageError" -> {"treebank"}
      [] err = "FileNotFoundError"          -> {"recheck"}
      [] err = "PipelineError"              -> {"pipeline"}
      [] OTHER                              -> {}

\* A call in which an error was raised ended at the step that raised it,
\* returned nothing, built no pipeline and stored nothing; with one caller
\* the language of a failed get_nlp call is not in the cache.
C9_FailedCall ==
    \A t \in Threads :
        LET f == th[t] IN
        /\ f.pc = "failed" <=> f.err # NoErr
        /\ f.err # NoErr =>
             /\ f.trace # <<>>
             /\ f.trace[Len(f.trace)] \in FailSteps(f.err)
             /\ f.ret = NoObj
             /\ f.self.nlp = NoPipeline
             /\ \A l \in DOMAIN nlps : nlps[l].id # f.self.id
             /\ \A i \in 1..Len(writes) : writes[i][2] # f.self.id
             /\ f.op = "get_nlp" => f.language \notin DOMAIN nlps

\* The call that follows a failed get_nlp call, when it is get_nlp for the
\* same language, runs the constructor again from its first step.
C9_Restart ==
    \A t \in Threads :
        (/\ th[t].pc = "failed"
         /\ th[t].op = "get_nlp"
         /\ th'[t] # th[t]
         /\ th'[t].op = "get_nlp"
         /\ th'[t].language = th[t].language) =>
            /\ ~th'[t].hit
            /\ th'[t].self.id = ncalls'
            /\ th'[t].self.id # th[t].self.id
            /\ th'[t].trace[1] = "validate_language"
            /\ th'[t].downloads = 0
            /\ nlps' = nlps

\* C9: a construction that fails stops at the failing step with the error
\* raised, returns no object and leaves the cache as it was, and a later
\* get_nlp call for the same language constructs again from the beginning.
C9_FailureStops == []C9_FailedCall /\ [][C9_Restart]_vars

C9_Witness ==
    \E t \in Threads :
        /\ th[t].op = "get_nlp"
        /\ th[t].pc = "failed"
        /\ th[t].err = "FileNotFoundError"
        /\ th[t].downloads = 1
        /\ th[t].self.id = 2
        /\ th[t].language \notin DOMAIN nlps

\* The step that may follow a step of the construction lifecycle.
Follows(a, b) ==
    <<a, b>> \in {<<"validate_language", "stanza_code">>,
                  <<"stanza_code", "treebank">>,
                  <<"treebank", "model_check">>,
                  <<"model_check", "download">>,
                  <<"model_check", "pipeline">>,
                  <<"download", "recheck">>,
                  <<"recheck", "pipeline">>,
                  <<"pipeline", "ready">>}

\* C10: the steps of a construction follow one another in the lifecycle's
\* order, the download being taken only when the check found no file, and the
\* pipeline constructor is entered only when the file was seen present by
\* the check or by the re-check after the download.
C10_LifecycleOrder ==
    \A t \in Threads :
        LET f == th[t] IN
        /\ f.trace # <<>> => f.trace[1] = "validate_language"
        /\ \A i \in 1..(Len(f.trace) - 1) : Follows(f.trace[i], f.trace[i + 1])
        /\ "download" \in Steps(f) => ~f.at_check
        /\ (f.pc = "pipeline" \/ "pipeline" \in Steps(f)) =>
              /\ f.observed
              /\ f.at_check \/ "recheck" \in Steps(f)
        /\ "ready" \in Steps(f) <=> f.self.nlp # NoPipeline
        /\ f.pc \in {"store", "done"} /\ Constructed(f) => "ready" \in Steps(f)

C10_Witness ==
    \E t \in Threads :
        /\ th[t].pc = "done"
        /\ th[t].trace = <<"validate_language", "stanza_code", "treebank",
                           "model_check", "download", "recheck", "pipeline",
                           "ready">>
        /\ th[t].ret.nlp # NoPipeline

\* The wrappers that exist with a pipeline: those callers construct or hold,
\* and those in the cache.
Built ==
    {w \in {th[t].self : t \in Threads} \cup {th[t].ret : t \in Threads}
           \cup {nlps[l] : l \in DOMAIN nlps} : w.nlp # NoPipeline}

\* C11: the pipeline of a wrapper for fro was constructed with the steps
\* tokenize,pos,lemma and identity lemmatization; the pipeline of a wrapper
\* for any other supported language with tokenize,mwt,pos,lemma,depparse and
\* identity lemmatization off.
C11_Processors ==
    \A w \in Built :
        /\ w.language \in SupportedCodes
        /\ w.language = "fro" =>
              /\ w.nlp.processors = "tokenize,pos,lemma"
              /\ w.nlp.lemma_use_identity
        /\ w.language # "fro" =>
              /\ w.nlp.processors = "tokenize,mwt,pos,lemma,depparse"
              /\ ~w.nlp.lemma_use_identity

C11_Witness ==
    \E v, w \in Built :
        /\ v.language = "fro"
        /\ v.nlp.processors = "tokenize,pos,lemma"
        /\ v.nlp.lemma_use_identity
        /\ w.language = "chu"
        /\ w.nlp.processors = "tokenize,mwt,pos,lemma,depparse"
        /\ ~w.nlp.lemma_use_identity

\* C12: with one caller, standard output is suppressed exactly while the
\* caller is at the pipeline construction: not during validation, the
\* existence check or the download, and not once the constructor has
\* returned or failed, whether the pipeline was built or its construction
\* raised.
C12_SuppressionScoped ==
    /\ stdout \in {"sys", "devnull"}
    /\ stdout = "devnull" <=> th[MainThread].pc = "pipeline"
    /\ th[MainThread].pc = "pipeline" => th[MainThread].old_stdout = "sys"
    /\ th[MainThread].pc \in {"idle", "model_check", "download", "store",
                              "done", "failed"} => stdout = "sys"

C12_Witness ==
    /\ th[MainThread].pc = "failed"
    /\ th[MainThread].err = "PipelineError"
    /\ th[MainThread].downloads = 1
    /\ ncalls = 2
    /\ stdout = "sys"

\* C13: a construction that has called the downloader, the file the download
\* was asked for being on local storage, asked for the language code its
\* model path was derived from, and its re-check has passed.
C13_DownloadUsesPathCode ==
    \A t \in Threads :
        LET f == th[t] IN
        (f.downloads > 0 /\ Downloaded(DownloadArgs(f.self)) \in files) =>
            /\ DownloadArgs(f.self).lang = f.self.stanza_code
            /\ Downloaded(DownloadArgs(f.self)) = f.self.model_path
            /\ f.observed
            /\ f.err # "FileNotFoundError"

\* A get_nlp call that found its language cached has run no step of the
\* constructor, raised nothing and returned a built wrapper.
C14_HitFrame ==
    \A t \in Threads :
        LET f == th[t] IN
        f.hit =>
            /\ f.op = "get_nlp"
            /\ f.pc = "done"
            /\ f.err = NoErr
            /\ f.trace = <<>>
            /\ f.downloads = 0
            /\ ~f.at_check /\ ~f.observed
            /\ f.self = NoObj
            /\ f.ret.language = f.language
            /\ f.ret.nlp # NoPipeline

\* The step of a get_nlp call that finds its language cached changes neither
\* local storage, standard output nor the cache, and returns the entry.
C14_HitStep ==
    \A t \in Threads :
        (th'[t] # th[t] /\ th'[t].hit) =>
            /\ th'[t].language \in DOMAIN nlps
            /\ th'[t].ret = nlps[th'[t].language]
            /\ files' = files
            /\ stdout' = stdout
            /\ nlps' = nlps
            /\ writes' = writes

\* C14: a get_nlp call whose language is cached validates nothing, tests no
\* file, downloads nothing, builds no pipeline and raises no error, whatever
\* its treebank argument.
C14_HitDoesNothing == []C14_HitFrame /\ [][C14_HitStep]_vars

C14_Witness ==
    \E t \in Threads :
        /\ th[t].hit
        /\ th[t].pc = "done"
        /\ th[t].language = "fro"
        /\ th[t].treebank = "xxx"
        /\ th[t].ret.treebank = "srcmf"
        /\ th[t].trace = <<>>

\* C15: every cache entry is stored under the language of its wrapper, one
\* entry per language, and the wrapper is fully constructed: validated,
\* with its model path and with the pipeline built for its code and treebank.
C15_CacheEntriesReady ==
    /\ DOMAIN nlps \subseteq SupportedCodes
    /\ \A l \in DOMAIN nlps :
         /\ nlps[l].language = l
         /\ nlps[l].id \in 1..ncalls
         /\ nlps[l].stanza_code = CodeOf(l)
         /\ nlps[l].model_path = ModelPath(CodeOf(l), nlps[l].treebank)
         /\ nlps[l].nlp # NoPipeline
         /\ nlps[l].nlp.lang = CodeOf(l)
         /\ nlps[l].nlp.package = nlps[l].treebank
    /\ \A l, k \in DOMAIN nlps : nlps[l].id = nlps[k].id => l = k

C15_Witness ==
    \E t \in Threads :
        /\ th[t].op = "get_nlp"
        /\ th[t].pc = "failed"
        /\ DOMAIN nlps = {"lat"}
        /\ nlps["lat"].nlp.lang = "la"
        /\ nlps["lat"].language = "lat"

====
